---- MODULE Spec2Model ----
(***************************************************************************)
(* Model of resize_pngs.py: the transparent-border trimmer                 *)
(* (trim_transparent_edges) and the batch routine                          *)
(* (resize_replace_and_backup) that moves every PNG of a folder to a       *)
(* backup folder and writes the trimmed, resized image back.               *)
(*                                                                         *)
(* Modelling decisions                                                     *)
(*  - A pixel is represented by its alpha value only: trimming looks at    *)
(*    nothing else and cropping copies pixels unchanged.                   *)
(*  - An image is a record [w, h, px] with px[r][c] the pixel of row r,    *)
(*    column c (0-based, as the NumPy array of the source).                *)
(*  - A folder is a function from file names to file contents; NoFile is   *)
(*    the content of a name that is absent.                                *)
(*  - The two folders are different directories, as in the script          *)
(*    (original_pngs and used_pngs).                                       *)
(*  - shutil.move is a rename: it either happens or raises leaving both    *)
(*    folders as they were.  Any step of the per-file pipeline may raise   *)
(*    at any file (I/O error, memory error, undecodable data).             *)
(*  - os.makedirs of the backup folder succeeds.                           *)
(***************************************************************************)
EXTENDS Integers, Sequences, FiniteSets, TLC

(***************************************************************************)
(* Bounds of the model.                                                    *)
(***************************************************************************)
MaxW == 3          \* widest image given to trim_transparent_edges alone
MaxH == 3          \* tallest image given to trim_transparent_edges alone
MaxFiles == 3      \* most entries the source folder starts with
MaxRuns == 2       \* most consecutive runs of the script on the same folders
MaxRerunFiles == 2 \* most entries of the source folder when runs are repeated

(***************************************************************************)
(* Images.                                                                 *)
(***************************************************************************)
\* Alpha values of the model: fully transparent and fully opaque.
AlphaValues == {0, 255}

ImagesOfSize(w, h) ==
    { [w |-> w, h |-> h, px |-> p] :
        p \in [0 .. h - 1 -> [0 .. w - 1 -> AlphaValues]] }

\* Exceptions are values that carry the field err.
Raised(e) == [err |-> e]
IsError(x) == "err" \in DOMAIN x

Min(S) == CHOOSE x \in S : \A y \in S : x <= y
Max(S) == CHOOSE x \in S : \A y \in S : x >= y

\* np.where(np.any(alpha_channel > 0, axis=1))[0]: the indices, in
\* ascending order, of the rows that hold a pixel with alpha > 0.  The
\* ascending array is kept as the set of its elements; its first element is
\* Min and its last is Max.
non_transparent_rows(img) ==
    { r \in 0 .. img.h - 1 : \E c \in 0 .. img.w - 1 : img.px[r][c] > 0 }

non_transparent_cols(img) ==
    { c \in 0 .. img.w - 1 : \E r \in 0 .. img.h - 1 : img.px[r][c] > 0 }

\* ndarray.any() of an array of indices: true iff some ELEMENT is non-zero.
\* It is false for the empty array and also for the array [0].
ArrayAny(indices) == \E i \in indices : i # 0

\* Image.crop(box): the pixels of the box; pixels of the box that lie outside
\* the image are transparent.
Crop(img, box) ==
    LET left == box[1]
        top == box[2]
        right == box[3]
        bottom == box[4]
        inside(r, c) == r \in 0 .. img.h - 1 /\ c \in 0 .. img.w - 1
    IN  [w |-> right - left,
         h |-> bottom - top,
         px |-> [r \in 0 .. bottom - top - 1 |->
                   [c \in 0 .. right - left - 1 |->
                      IF inside(r + top, c + left)
                      THEN img.px[r + top][c + left]
                      ELSE 0]]]

\* Mutant: rows and columns are confused, the box is (top, left, bottom + 1,
\* right + 1).
BBoxSwapped(rows, cols) == <<Min(rows), Min(cols), Max(rows) + 1, Max(cols) + 1>>

\* Mutant: the exclusive bounds of the box are not incremented.
BBoxNoPlusOne(rows, cols) == <<Min(cols), Min(rows), Max(cols), Max(rows)>>

\* top, bottom = rows[0], rows[-1]; left, right = cols[0], cols[-1];
\* bbox = (left, top, right + 1, bottom + 1)
BBox(rows, cols) == <<Min(cols), Min(rows), Max(cols) + 1, Max(rows) + 1>>

\* Mutant: the guard for fully transparent images is missing, so rows[0]
\* raises IndexError on the empty array.
TrimNoGuard(img) ==
    LET rows == non_transparent_rows(img)
        cols == non_transparent_cols(img)
    IN  IF rows = {} \/ cols = {}
        THEN Raised("IndexError")
        ELSE Crop(img, BBox(rows, cols))

\* trim_transparent_edges
trim_transparent_edges(img) ==
    LET rows == non_transparent_rows(img)
        cols == non_transparent_cols(img)
    IN  IF ~(ArrayAny(rows) /\ ArrayAny(cols))
        THEN img
        ELSE Crop(img, BBox(rows, cols))

(***************************************************************************)
(* Files and folders.                                                      *)
(***************************************************************************)
\* File names are sequences of characters.
Names ==
    { <<"a", ".", "p", "n", "g">>,
      <<"b", ".", "P", "N", "G">>,
      <<"c", ".", "P", "n", "g">>,
      <<"d", ".", "t", "x", "t">>,
      <<"p", "n", "g">> }

\* str.lower(), on the characters that occur in Names.
LowerChar(ch) ==
    CASE ch = "P" -> "p"
      [] ch = "N" -> "n"
      [] ch = "G" -> "g"
      [] OTHER -> ch

Lower(name) == [i \in 1 .. Len(name) |-> LowerChar(name[i])]

\* str.endswith(suffix)
EndsWith(name, suffix) ==
    /\ Len(name) >= Len(suffix)
    /\ SubSeq(name, Len(name) - Len(suffix) + 1, Len(name)) = suffix

\* Mutant: the name is not lowered before the suffix is tested.
IsPngCaseSensitive(name) == EndsWith(name, <<".", "p", "n", "g">>)

\* Mutant: the suffix is tested without its dot.
IsPngNoDot(name) == EndsWith(Lower(name), <<"p", "n", "g">>)

\* f.lower().endswith('.png')
IsPng(name) == EndsWith(Lower(name), <<".", "p", "n", "g">>)

\* File contents.
NoFile == [kind |-> "none"]                 \* no entry under that name
Corrupt == [kind |-> "corrupt"]             \* bytes that are no image
Partial == [kind |-> "partial"]             \* a file whose writing broke off
Other == [kind |-> "other"]                 \* content of a file that is no PNG
OldBackup == [kind |-> "old"]               \* entry left by an earlier run
Png(image) == [kind |-> "png", image |-> image]

\* Sample images stored in the PNG files of the source folder.
Alpha2x2(a, b, c, d) ==
    [w |-> 2, h |-> 2,
     px |-> [r \in 0 .. 1 |-> [col \in 0 .. 1 |->
               IF r = 0 THEN (IF col = 0 THEN a ELSE b)
                        ELSE (IF col = 0 THEN c ELSE d)]]]

SampleImages ==
    { Alpha2x2(0, 0, 0, 0),      \* fully transparent
      Alpha2x2(0, 0, 0, 255) }   \* one pixel, away from row 0 and column 0

PngContents == { Corrupt } \cup { Png(i) : i \in SampleImages }

\* The (target_width, target_height) pairs the routine is called with.
TargetSizes == { <<1, 2>>, <<2, 1>> }

\* Image.open(path) on a file of content c.
Decode(c) ==
    CASE c.kind = "png" -> c.image
      [] c.kind = "none" -> Raised("FileNotFoundError")
      [] OTHER -> Raised("UnidentifiedImageError")

\* Mutant: the size is given as (height, width).
ResizeSwapped(im, tw, th) ==
    [w |-> th, h |-> tw,
     px |-> [r \in 0 .. tw - 1 |-> [c \in 0 .. th - 1 |->
               im.px[(r * im.h) \div tw][(c * im.w) \div th]]]]

\* Image.resize((target_width, target_height), LANCZOS): an image of exactly
\* that size.  The resampling kernel is abstracted: every output pixel takes
\* the source pixel its centre falls in.
Resize(im, tw, th) ==
    IF tw <= 0 \/ th <= 0 \/ im.w <= 0 \/ im.h <= 0
    THEN Raised("ValueError")
    ELSE [w |-> tw, h |-> th,
          px |-> [r \in 0 .. th - 1 |-> [c \in 0 .. tw - 1 |->
                    im.px[(r * im.h) \div th][(c * im.w) \div tw]]]]

\* Permutations of a finite set, as sequences: the orders os.listdir may
\* return the entries in.
Perms(S) ==
    { s \in [1 .. Cardinality(S) -> S] :
        \A i, j \in 1 .. Cardinality(S) : i # j => s[i] # s[j] }

\* Value of a local variable that is not bound yet.
Unbound == [unbound |-> TRUE]

(***************************************************************************)
(* State of a call of resize_replace_and_backup.                           *)
(***************************************************************************)
VARIABLES
    pc,              \* position in the routine
    target_isdir,    \* os.path.isdir(target_folder)
    backup_isdir,    \* os.path.isdir(backup_folder)
    target_files,    \* entries of target_folder: name -> content
    backup_files,    \* entries of backup_folder: name -> content
    target_width,
    target_height,
    png_files,       \* the listing of line 65
    idx,             \* position of the for loop in png_files (1-based)
    img,             \* local variables of the loop body
    trimmed_img,
    resized_img,
    output,          \* the lines printed so far
    at_call,         \* history: the two folders when the routine was called
    raised,          \* history: <<name, step>> of every exception of the loop,
                     \* step being "move" or "after_move"
    retrimmed_img    \* trim_transparent_edges applied to trimmed_img

folders == <<target_isdir, backup_isdir, target_files, backup_files>>
params == <<target_width, target_height, at_call>>
locals == <<img, trimmed_img, resized_img>>
vars == <<pc, folders, params, png_files, idx, locals, output, raised,
          retrimmed_img>>

EmptyFolder == [n \in Names |-> NoFile]

\* Folders the routine may find: at most MaxFiles entries, a name in .png
\* holding an image or undecodable bytes.
SourceFolders ==
    { tf \in [Names -> PngContents \cup {Other, NoFile}] :
        /\ \A n \in Names :
             IF IsPng(n) THEN tf[n] \in PngContents \cup {NoFile}
                         ELSE tf[n] \in {Other, NoFile}
        /\ Cardinality({ n \in Names : tf[n] # NoFile }) <= MaxFiles }

\* The backup folder is empty or holds entries of an earlier run.
BackupFolders ==
    { EmptyFolder, [n \in Names |-> IF IsPng(n) THEN OldBackup ELSE NoFile] }

Line(msg, file) == [msg |-> msg, file |-> file]
NoName == << >>

Init ==
    /\ pc = "start"
    /\ target_isdir \in BOOLEAN
    /\ backup_isdir \in BOOLEAN
    /\ target_files \in (IF target_isdir THEN SourceFolders ELSE {EmptyFolder})
    /\ backup_files \in (IF backup_isdir THEN BackupFolders ELSE {EmptyFolder})
    /\ \E size \in TargetSizes :
         /\ target_width = size[1]
         /\ target_height = size[2]
    /\ png_files = << >>
    /\ idx = 0
    /\ img = Unbound
    /\ trimmed_img = Unbound
    /\ resized_img = Unbound
    /\ output = << >>
    /\ at_call = [target_isdir |-> target_isdir, backup_isdir |-> backup_isdir,
                  target_files |-> target_files, backup_files |-> backup_files]
    /\ raised = {}
    /\ retrimmed_img = Unbound

\* The file the loop body works on.
filename == png_files[idx]

\* The content every file had when the routine was called.
original_files == at_call.target_files

\* Mutant: the backup folder is created before the source folder is tested.
CheckTargetAfterMakedirs ==
    /\ pc = "start"
    /\ backup_isdir' = TRUE
    /\ IF ~target_isdir
       THEN /\ output' = Append(output, Line("target_missing", NoName))
            /\ pc' = "returned"
       ELSE /\ pc' = "check_backup"
            /\ UNCHANGED output
    /\ UNCHANGED <<target_isdir, target_files, backup_files, params, png_files,
                   idx, locals, raised, retrimmed_img>>

\* Lines 55-57: the source folder must exist.
CheckTarget ==
    /\ pc = "start"
    /\ IF ~target_isdir
       THEN /\ output' = Append(output, Line("target_missing", NoName))
            /\ pc' = "returned"
       ELSE /\ pc' = "check_backup"
            /\ UNCHANGED output
    /\ UNCHANGED <<folders, params, png_files, idx, locals, raised,
                   retrimmed_img>>

\* Lines 59-61: the backup folder is created when it is missing.
EnsureBackup ==
    /\ pc = "check_backup"
    /\ IF ~backup_isdir
       THEN /\ backup_isdir' = TRUE
            /\ output' = Append(output, Line("backup_created", NoName))
       ELSE UNCHANGED <<backup_isdir, output>>
    /\ pc' = "list"
    /\ UNCHANGED <<target_isdir, target_files, backup_files, params, png_files,
                   idx, locals, raised, retrimmed_img>>

\* Lines 65-69: the names in .png, in the order the file system gives them.
ListFiles ==
    /\ pc = "list"
    /\ \E listing \in Perms({ n \in Names : target_files[n] # NoFile /\ IsPng(n) }) :
         /\ png_files' = listing
         /\ IF listing = << >>
            THEN /\ output' = Append(output, Line("no_png", NoName))
                 /\ pc' = "returned"
                 /\ UNCHANGED idx
            ELSE /\ output' = Append(output, Line("count", NoName))
                 /\ pc' = "loop"
                 /\ idx' = 1
    /\ UNCHANGED <<folders, params, locals, raised, retrimmed_img>>

\* Lines 70-72: os.listdir raised.
ListFilesFail ==
    /\ pc = "list"
    /\ output' = Append(output, Line("list_error", NoName))
    /\ pc' = "returned"
    /\ UNCHANGED <<folders, params, png_files, idx, locals, raised,
                   retrimmed_img>>

\* Mutant: the last line is printed inside the loop, once per file.
LoopHeadPrintsInLoop ==
    /\ pc = "loop"
    /\ output' = Append(output, Line("all_done", NoName))
    /\ pc' = (IF idx <= Len(png_files) THEN "move" ELSE "done")
    /\ UNCHANGED <<folders, params, png_files, idx, locals, raised,
                   retrimmed_img>>

\* Lines 75 and 101: the head of the for loop, and the last line once the
\* listing is exhausted.
LoopHead ==
    /\ pc = "loop"
    /\ IF idx <= Len(png_files)
       THEN /\ pc' = "move"
            /\ UNCHANGED output
       ELSE /\ output' = Append(output, Line("all_done", NoName))
            /\ pc' = "done"
    /\ UNCHANGED <<folders, params, png_files, idx, locals, raised,
                   retrimmed_img>>

\* The step an exception is raised in: the move, or one after the move.
StepOf(position) == IF position = "move" THEN "move" ELSE "after_move"

\* Mutant: the exception is not caught and ends the routine.
ExceptAborts(cause) ==
    /\ raised' = raised \cup {<<filename, StepOf(pc)>>}
    /\ pc' = "crashed"
    /\ UNCHANGED <<output, idx, locals>>

\* Lines 98-99: the exception of one file is caught and reported, and the
\* loop goes on with the next file.  The locals of the loop body are dead
\* from here on (the next iteration assigns each before reading it) and are
\* cleared.
Except(cause) ==
    /\ raised' = raised \cup {<<filename, StepOf(pc)>>}
    /\ output' = Append(output, [msg |-> "file_error", file |-> filename,
                                 cause |-> cause])
    /\ idx' = idx + 1
    /\ pc' = "loop"
    /\ img' = Unbound
    /\ trimmed_img' = Unbound
    /\ resized_img' = Unbound

\* Mutant: the file is removed from the source folder without being stored
\* in the backup folder.
MoveFileLost ==
    /\ pc = "move"
    /\ target_files' = [target_files EXCEPT ![filename] = NoFile]
    /\ pc' = "open"
    /\ UNCHANGED <<target_isdir, backup_isdir, backup_files, params, png_files,
                   idx, locals, output, raised, retrimmed_img>>

\* Mutant: the move is left out.
MoveFileSkipped ==
    /\ pc = "move"
    /\ pc' = "open"
    /\ UNCHANGED <<folders, params, png_files, idx, locals, output, raised, retrimmed_img>>

\* Line 81: shutil.move(original_path, backup_path).  An entry of the same
\* name in the backup folder is replaced.
MoveFile ==
    /\ pc = "move"
    /\ target_files' = [target_files EXCEPT ![filename] = NoFile]
    /\ backup_files' = [backup_files EXCEPT ![filename] = target_files[filename]]
    /\ pc' = "open"
    /\ UNCHANGED <<target_isdir, backup_isdir, params, png_files, idx, locals,
                   output, raised, retrimmed_img>>

\* Line 81 raising: nothing is moved.
MoveFileFail ==
    /\ pc = "move"
    /\ Except("OSError")
    /\ UNCHANGED <<folders, params, png_files, retrimmed_img>>

\* Line 84: Image.open(backup_path).
OpenImage ==
    /\ pc = "open"
    /\ LET opened == Decode(backup_files[filename])
       IN  IF IsError(opened)
           THEN Except(opened.err)
           ELSE /\ img' = opened
                /\ pc' = "trim"
                /\ UNCHANGED <<output, idx, raised, trimmed_img, resized_img>>
    /\ UNCHANGED <<folders, params, png_files, retrimmed_img>>

\* Line 84 raising for a reason outside the file's content.
OpenImageFail ==
    /\ pc = "open"
    /\ Except("OSError")
    /\ UNCHANGED <<folders, params, png_files, retrimmed_img>>

\* Line 88: trimmed_img = trim_transparent_edges(img).
TrimImage ==
    /\ pc = "trim"
    /\ LET trimmed == trim_transparent_edges(img)
       IN  IF IsError(trimmed)
           THEN Except(trimmed.err)
           ELSE /\ trimmed_img' = trimmed
                /\ pc' = "resize"
                /\ UNCHANGED <<output, idx, raised, img, resized_img>>
    /\ UNCHANGED <<folders, params, png_files, retrimmed_img>>

\* Line 88 raising: the pixel data is read by img.convert, which may fail.
TrimImageFail ==
    /\ pc = "trim"
    /\ Except("OSError")
    /\ UNCHANGED <<folders, params, png_files, retrimmed_img>>

\* Line 91: resized_img = trimmed_img.resize((target_width, target_height)).
ResizeImage ==
    /\ pc = "resize"
    /\ LET resized == Resize(trimmed_img, target_width, target_height)
       IN  IF IsError(resized)
           THEN Except(resized.err)
           ELSE /\ resized_img' = resized
                /\ pc' = "save"
                /\ UNCHANGED <<output, idx, raised, img, trimmed_img>>
    /\ UNCHANGED <<folders, params, png_files, retrimmed_img>>

\* Line 91 raising.
ResizeImageFail ==
    /\ pc = "resize"
    /\ Except("MemoryError")
    /\ UNCHANGED <<folders, params, png_files, retrimmed_img>>

\* Mutant: the result is written to the backup path.
SaveImageToBackup ==
    /\ pc = "save"
    /\ backup_files' = [backup_files EXCEPT ![filename] = Png(resized_img)]
    /\ output' = Append(output, Line("file_done", filename))
    /\ idx' = idx + 1
    /\ pc' = "loop"
    /\ img' = Unbound
    /\ trimmed_img' = Unbound
    /\ resized_img' = Unbound
    /\ UNCHANGED <<target_isdir, backup_isdir, target_files, params, png_files,
                   raised, retrimmed_img>>

\* Lines 94-96: resized_img.save(original_path), then the success line.  The
\* locals of the loop body are dead from here on and are cleared.
SaveImage ==
    /\ pc = "save"
    /\ target_files' = [target_files EXCEPT ![filename] = Png(resized_img)]
    /\ output' = Append(output, Line("file_done", filename))
    /\ idx' = idx + 1
    /\ pc' = "loop"
    /\ img' = Unbound
    /\ trimmed_img' = Unbound
    /\ resized_img' = Unbound
    /\ UNCHANGED <<target_isdir, backup_isdir, backup_files, params, png_files,
                   raised, retrimmed_img>>

\* Line 94 raising: the file could not be created, or its writing broke off
\* and left either nothing or a partial file at the source path.
SaveImageFail ==
    /\ pc = "save"
    /\ \E left \in {NoFile, Partial} :
         target_files' = [target_files EXCEPT ![filename] = left]
    /\ Except("OSError")
    /\ UNCHANGED <<target_isdir, backup_isdir, backup_files, params, png_files,
                   retrimmed_img>>

Next ==
    \/ CheckTarget
    \/ EnsureBackup
    \/ ListFiles
    \/ ListFilesFail
    \/ LoopHead
    \/ MoveFile
    \/ MoveFileFail
    \/ OpenImage
    \/ OpenImageFail
    \/ TrimImage
    \/ TrimImageFail
    \/ ResizeImage
    \/ ResizeImageFail
    \/ SaveImage
    \/ SaveImageFail

Spec == Init /\ [][Next]_vars

(***************************************************************************)
(* Consecutive runs of the script on the same two folders, nothing being   *)
(* changed by hand in between.  The history at_call keeps the folders as   *)
(* they were before the first run; output is the console of all the runs.  *)
(***************************************************************************)
\* The lines a run of the routine ends with.
RunEndLines == {"target_missing", "no_png", "list_error", "all_done"}

RunsEnded ==
    Cardinality({ i \in 1 .. Len(output) : output[i].msg \in RunEndLines })

\* Line 113: the routine is called again once the previous call returned.
Rerun ==
    /\ pc \in {"done", "returned"}
    /\ RunsEnded < MaxRuns
    /\ pc' = "start"
    /\ png_files' = << >>
    /\ idx' = 0
    /\ UNCHANGED <<folders, params, locals, output, raised, retrimmed_img>>

NextRerun == Next \/ Rerun

\* The folders the first run starts from.
InitRerun ==
    /\ Init
    /\ Cardinality({ n \in Names : target_files[n] # NoFile }) <= MaxRerunFiles

SpecRerun == InitRerun /\ [][NextRerun]_vars

\* One run under fairness, started like SpecRerun from folders of at most
\* MaxRerunFiles entries.  The routine is sequential code on one thread: as
\* long as a step is possible, one is taken.
SpecFair == InitRerun /\ [][Next]_vars /\ WF_vars(Next)

(***************************************************************************)
(* trim_transparent_edges on its own: every image up to MaxW x MaxH is     *)
(* trimmed, and the result is trimmed again.                               *)
(***************************************************************************)
InitTrim ==
    /\ pc = "trim_input"
    /\ \E w \in 1 .. MaxW, h \in 1 .. MaxH : img \in ImagesOfSize(w, h)
    /\ trimmed_img = Unbound
    /\ retrimmed_img = Unbound
    /\ resized_img = Unbound
    /\ target_isdir = FALSE
    /\ backup_isdir = FALSE
    /\ target_files = EmptyFolder
    /\ backup_files = EmptyFolder
    /\ \E size \in TargetSizes :
         /\ target_width = size[1]
         /\ target_height = size[2]
    /\ png_files = << >>
    /\ idx = 0
    /\ output = << >>
    /\ at_call = [target_isdir |-> FALSE, backup_isdir |-> FALSE,
                  target_files |-> EmptyFolder, backup_files |-> EmptyFolder]
    /\ raised = {}

TrimOnce ==
    /\ pc = "trim_input"
    /\ trimmed_img' = trim_transparent_edges(img)
    /\ pc' = "trimmed"
    /\ UNCHANGED <<folders, params, png_files, idx, img, resized_img, output,
                   raised, retrimmed_img>>

TrimTwice ==
    /\ pc = "trimmed"
    /\ ~IsError(trimmed_img)
    /\ retrimmed_img' = trim_transparent_edges(trimmed_img)
    /\ pc' = "retrimmed"
    /\ UNCHANGED <<folders, params, png_files, idx, locals, output, raised>>

NextTrim == TrimOnce \/ TrimTwice

SpecTrim == InitTrim /\ [][NextTrim]_vars

(***************************************************************************)
(* Properties of trim_transparent_edges, checked under SpecTrim.           *)
(***************************************************************************)
\* Rows and columns that hold a pixel with alpha > 0.
OpaqueRows(im) ==
    { r \in 0 .. im.h - 1 : \E c \in 0 .. im.w - 1 : im.px[r][c] > 0 }
OpaqueCols(im) ==
    { c \in 0 .. im.w - 1 : \E r \in 0 .. im.h - 1 : im.px[r][c] > 0 }
HasOpaque(im) == \E r \in 0 .. im.h - 1 : \E c \in 0 .. im.w - 1 : im.px[r][c] > 0
FullyTransparent(im) == ~HasOpaque(im)

\* The tightest box (left, top, right + 1, bottom + 1) around the pixels
\* with alpha > 0.
TightBox(im) ==
    LET top == CHOOSE r \in OpaqueRows(im) : \A q \in OpaqueRows(im) : r <= q
        bottom == CHOOSE r \in OpaqueRows(im) : \A q \in OpaqueRows(im) : r >= q
        left == CHOOSE c \in OpaqueCols(im) : \A q \in OpaqueCols(im) : c <= q
        right == CHOOSE c \in OpaqueCols(im) : \A q \in OpaqueCols(im) : c >= q
    IN  <<left, top, right + 1, bottom + 1>>

\* No border row and no border column of im is fully transparent.
NoTransparentBorder(im) ==
    /\ im.w >= 1
    /\ im.h >= 1
    /\ {0, im.h - 1} \subseteq OpaqueRows(im)
    /\ {0, im.w - 1} \subseteq OpaqueCols(im)

\* C4 (trim tightness): an image with at least one pixel of alpha > 0 is
\* trimmed to exactly the sub-image of its tightest box, so the result has no
\* fully transparent border row or column.
C4_TrimTightness ==
    (pc = "trimmed" /\ HasOpaque(img)) =>
        /\ trimmed_img = Crop(img, TightBox(img))
        /\ NoTransparentBorder(trimmed_img)

\* C9 (no-op on fully transparent input): an image whose pixels all have
\* alpha 0 comes back unchanged, same size and same pixels, and no error is
\* raised.
C9_TrimTransparentNoOp ==
    (pc = "trimmed" /\ FullyTransparent(img)) =>
        /\ ~IsError(trimmed_img)
        /\ trimmed_img = img

\* A fully transparent image wider and taller than one pixel has been trimmed.
C9_Witness ==
    /\ pc = "trimmed"
    /\ FullyTransparent(img)
    /\ img.w > 1
    /\ img.h > 1

\* C10 (idempotence): trimming the trimmed image gives the trimmed image
\* again, same size and same pixels.
C10_TrimIdempotent ==
    pc = "retrimmed" => retrimmed_img = trimmed_img

\* The first trim really cropped, to a single row, and the second trim ran.
C10_Witness ==
    /\ pc = "retrimmed"
    /\ trimmed_img # img
    /\ trimmed_img.h = 1
    /\ img.h > 1

(***************************************************************************)
(* Properties of resize_replace_and_backup, checked under Spec.            *)
(***************************************************************************)
Listed == { png_files[i] : i \in 1 .. Len(png_files) }

\* The outcome lines printed for file f.
Reports(f) ==
    { i \in 1 .. Len(output) :
        output[i].msg \in {"file_done", "file_error"} /\ output[i].file = f }

Ended(f) == Reports(f) # {}
Succeeded(f) == \E i \in Reports(f) : output[i].msg = "file_done"
RaisedFiles == { r[1] : r \in raised }
MoveFailed(f) == <<f, "move">> \in raised
LaterStepFailed(f) == <<f, "after_move">> \in raised

\* The source path of f holds the image made from f's original content:
\* decoded, trimmed, resized to the target size and encoded.
HoldsTransformed(f) ==
    /\ original_files[f].kind = "png"
    /\ target_files[f] =
         Png(Resize(trim_transparent_edges(original_files[f].image),
                    target_width, target_height))

InBackup(f) == backup_files[f] = original_files[f]
FullyProcessed(f) == InBackup(f) /\ HoldsTransformed(f)

\* The move failed and left everything in place.
NothingMoved(f) ==
    /\ MoveFailed(f)
    /\ target_files[f] = original_files[f]
    /\ backup_files[f] = at_call.backup_files[f]

\* A later step failed: the original is in the backup folder, and the source
\* path holds no image (nothing, or the rest of a write that broke off).
BackedUpOnly(f) ==
    /\ LaterStepFailed(f)
    /\ InBackup(f)
    /\ target_files[f] \in {NoFile, Partial}

\* C1 (backup safety, as stated): once the processing of a file has ended,
\* exactly one of (a) original in the backup folder and transformed image at
\* the source path, (b) move failed, original untouched at the source path and
\* no backup entry created.
C1_BackupSafety ==
    \A f \in Listed :
        Ended(f) => (FullyProcessed(f) /\ ~NothingMoved(f))
                    \/ (~FullyProcessed(f) /\ NothingMoved(f))

\* C1 (amended): once the processing of a file has ended, exactly one of
\* (a) no step failed, the original is in the backup folder and the
\* transformed image at the source path, (b) the move failed, the original is
\* untouched at the source path and no backup entry was created, (c) a step
\* after the move failed, the original is in the backup folder and the source
\* path holds no image.
C1_BackupSafetyAmended ==
    \A f \in Listed :
        Ended(f) =>
            CASE f \notin RaisedFiles ->
                    FullyProcessed(f) /\ ~NothingMoved(f) /\ ~BackedUpOnly(f)
              [] MoveFailed(f) ->
                    NothingMoved(f) /\ ~FullyProcessed(f) /\ ~BackedUpOnly(f)
              [] OTHER ->
                    BackedUpOnly(f) /\ ~FullyProcessed(f) /\ ~NothingMoved(f)

\* The run is over with one file of each kind: processed, not moved, and
\* backed up without a result.
C1_Witness ==
    /\ pc = "done"
    /\ \E f, g, k \in Listed :
         /\ Succeeded(f) /\ FullyProcessed(f)
         /\ NothingMoved(g)
         /\ BackedUpOnly(k)

\* C2 (backup-first ordering): decode, trim, resize and the write to the
\* source path of a file happen only once its move to the backup folder has
\* succeeded, and a source path is never written while the backup folder does
\* not hold that file's original bytes.
C2_BackupFirst ==
    /\ [](pc \in {"open", "trim", "resize", "save"} => InBackup(filename))
    /\ [][\A f \in Names :
            (target_files'[f] # target_files[f] /\ target_files'[f] # NoFile)
                => InBackup(f)]_vars

\* A source path has been written with an image while the original is in the
\* backup folder.
C2_Witness ==
    \E f \in Listed :
        /\ target_files[f].kind = "png"
        /\ target_files[f] # original_files[f]
        /\ InBackup(f)

RunningPcs ==
    {"start", "check_backup", "list", "loop", "move", "open", "trim", "resize",
     "save"}

\* C3 (fault isolation): every listed file is attempted exactly once and gets
\* exactly one outcome line, whatever happened to the files before it; a file
\* none of whose steps failed ends with its original in the backup folder and
\* the transformed image at its source path; the loop stops only after the
\* last file.
C3_FaultIsolation ==
    /\ \A i \in 1 .. Len(png_files) :
         LET f == png_files[i]
         IN  /\ Cardinality(Reports(f)) <= 1
             /\ i < idx => Cardinality(Reports(f)) = 1
             /\ i > idx => /\ Reports(f) = {}
                           /\ target_files[f] = original_files[f]
             /\ (Ended(f) /\ f \notin RaisedFiles) => FullyProcessed(f)
             /\ (Ended(f) /\ f \in RaisedFiles) => ~Succeeded(f)
    /\ (pc \notin RunningPcs /\ png_files # << >>) => idx = Len(png_files) + 1

\* Three files, the second one fails, the first and the third are processed.
C3_Witness ==
    /\ pc = "done"
    /\ Len(png_files) = 3
    /\ png_files[2] \in RaisedFiles
    /\ original_files[png_files[2]] = Corrupt
    /\ FullyProcessed(png_files[1]) /\ Succeeded(png_files[1])
    /\ FullyProcessed(png_files[3]) /\ Succeeded(png_files[3])

\* C5 (recoverable state): in every state of a run, every listed file has its
\* original bytes at its source path or at its backup path.
C5_OriginalNeverLost ==
    \A f \in Listed :
        target_files[f] = original_files[f] \/ backup_files[f] = original_files[f]

\* The second file is moved and not yet written back, the first is done, the
\* third is untouched.
C5_Witness ==
    /\ pc = "save"
    /\ idx = 2
    /\ Len(png_files) = 3
    /\ target_files[png_files[2]] = NoFile
    /\ target_files[png_files[3]] = original_files[png_files[3]]

\* Names that end in .png, whatever the case of the letters.
DotPngNames ==
    { n \in Names :
        /\ Len(n) >= 4
        /\ n[Len(n) - 3] = "."
        /\ n[Len(n) - 2] \in {"p", "P"}
        /\ n[Len(n) - 1] \in {"n", "N"}
        /\ n[Len(n)] \in {"g", "G"} }

\* The source folder existed and held no name in .png when the routine was
\* called.
CalledOnEmptyFolder ==
    /\ at_call.target_isdir
    /\ \A n \in DotPngNames : at_call.target_files[n] = NoFile

\* C6 (empty source folder, as stated): the routine returns with the file
\* system as it was before the call, the existence of the backup folder
\* included.
C6_EmptyFolderNoMutation ==
    (CalledOnEmptyFolder /\ pc = "returned") =>
        /\ target_isdir = at_call.target_isdir
        /\ target_files = at_call.target_files
        /\ backup_isdir = at_call.backup_isdir
        /\ backup_files = at_call.backup_files

\* C6 (amended): no file is moved or written and the contents of both
\* folders stay as they were; the routine reports and returns; the only change
\* is that the backup folder exists afterwards.
C6_EmptyFolderOnlyMakedirs ==
    CalledOnEmptyFolder =>
        /\ target_isdir = at_call.target_isdir
        /\ target_files = at_call.target_files
        /\ backup_files = at_call.backup_files
        /\ pc \in {"start", "check_backup", "list", "returned"}
        /\ pc \in {"list", "returned"} => backup_isdir
        /\ pc = "returned" =>
             /\ output[Len(output)].msg \in {"no_png", "list_error"}
             /\ \A i \in 1 .. Len(output) :
                  output[i].msg \in {"backup_created", "no_png", "list_error"}

\* The routine returned from a folder that holds only other files, having
\* created the backup folder.
C6_Witness ==
    /\ CalledOnEmptyFolder
    /\ pc = "returned"
    /\ ~at_call.backup_isdir
    /\ backup_isdir
    /\ \E n \in Names : target_files[n] = Other
    /\ output[Len(output)].msg = "no_png"

\* C7 (missing source folder): the routine reports the error and returns; the
\* backup folder is not created, no file is moved or written, and no other
\* line is printed.
C7_MissingSourceNoEffect ==
    ~at_call.target_isdir =>
        /\ target_isdir = at_call.target_isdir
        /\ target_files = at_call.target_files
        /\ backup_isdir = at_call.backup_isdir
        /\ backup_files = at_call.backup_files
        /\ pc \in {"start", "returned"}
        /\ pc = "start" => output = << >>
        /\ pc = "returned" => output = <<Line("target_missing", NoName)>>

\* The routine returned; neither folder existed.
C7_Witness ==
    /\ pc = "returned"
    /\ ~at_call.target_isdir
    /\ ~at_call.backup_isdir
    /\ ~backup_isdir

\* C8 (resize exactness): the image written for a file whose pipeline
\* succeeded is exactly target_width wide and target_height high.
C8_ResizeExact ==
    \A f \in Listed :
        Succeeded(f) =>
            /\ target_files[f].kind = "png"
            /\ target_files[f].image.w = target_width
            /\ target_files[f].image.h = target_height

\* Two files succeeded: a fully transparent one, which trim returned
\* uncropped, and one that trim cropped to a single pixel.
C8_Witness ==
    /\ pc = "done"
    /\ \E f, g \in Listed :
         /\ Succeeded(f)
         /\ Succeeded(g)
         /\ original_files[f] = Png(Alpha2x2(0, 0, 0, 0))
         /\ original_files[g] = Png(Alpha2x2(0, 0, 0, 255))
         /\ trim_transparent_edges(original_files[g].image).w = 1

\* C11 (state after a failure that follows the move): once the processing of
\* a file has ended with a failure of its decode, trim, resize or write step,
\* the backup path holds the file's original bytes and the source path is
\* empty: it holds neither the original nor a partial file.
C11_SlotEmptyAfterFailure ==
    \A f \in Listed :
        (Ended(f) /\ LaterStepFailed(f)) =>
            /\ InBackup(f)
            /\ target_files[f] = NoFile

(***************************************************************************)
(* Properties of consecutive runs, checked under SpecRerun.                *)
(***************************************************************************)
\* C12 (backup entries survive re-runs): a backup entry that holds the
\* original bytes of its file, as they were before the first run, keeps
\* holding them in every later step of every later run; no run replaces it
\* with an already transformed image of the same name.
C12_BackupSurvivesReruns ==
    [][\A f \in Names :
         (original_files[f] # NoFile /\ backup_files[f] = original_files[f])
             => backup_files'[f] = original_files[f]]_vars

(***************************************************************************)
(* Further properties of trim_transparent_edges, checked under SpecTrim.   *)
(***************************************************************************)
\* The image is cropped: the test of line 29 lets it through to line 33.
TrimCrops(im) ==
    ArrayAny(non_transparent_rows(im)) /\ ArrayAny(non_transparent_cols(im))

\* The box the code computes for im on line 38, or the whole image when the
\* code returns im uncropped.
ComputedBox(im) ==
    IF TrimCrops(im)
    THEN BBox(non_transparent_rows(im), non_transparent_cols(im))
    ELSE <<0, 0, im.w, im.h>>

\* C13 (trim never loses content): every pixel with alpha > 0 of the input is
\* in the result, at its position shifted by (left, top) of the computed box,
\* and a computed box satisfies 0 <= left < right <= width and
\* 0 <= top < bottom <= height of the input.
C13_TrimKeepsContent ==
    pc = "trimmed" =>
        LET box == ComputedBox(img)
            left == box[1]
            top == box[2]
            right == box[3]
            bottom == box[4]
        IN  /\ ~IsError(trimmed_img)
            /\ TrimCrops(img) =>
                 /\ 0 <= left /\ left < right /\ right <= img.w
                 /\ 0 <= top /\ top < bottom /\ bottom <= img.h
            /\ \A r \in 0 .. img.h - 1 : \A c \in 0 .. img.w - 1 :
                 img.px[r][c] > 0 =>
                     /\ r - top \in 0 .. trimmed_img.h - 1
                     /\ c - left \in 0 .. trimmed_img.w - 1
                     /\ trimmed_img.px[r - top][c - left] = img.px[r][c]

\* An image has been cropped on the left and at the top and keeps two pixels.
C13_Witness ==
    /\ pc = "trimmed"
    /\ TrimCrops(img)
    /\ ComputedBox(img)[1] > 0
    /\ ComputedBox(img)[2] > 0
    /\ trimmed_img.w < img.w
    /\ trimmed_img.h < img.h
    /\ \E r \in 0 .. trimmed_img.h - 1 : \E c, d \in 0 .. trimmed_img.w - 1 :
         c # d /\ trimmed_img.px[r][c] > 0 /\ trimmed_img.px[r][d] > 0

(***************************************************************************)
(* Further properties of resize_replace_and_backup, checked under Spec.    *)
(***************************************************************************)
\* The entries of the source folder, at the call, whose name ends in .png
\* whatever the case of its letters.
PngEntriesAtCall == { n \in DotPngNames : original_files[n] # NoFile }

\* C14 (enumeration frame): the files a run works on are exactly the entries
\* of the source folder whose name ends in .png, compared without regard to
\* case; the listing is taken once, before any file is touched; every other
\* entry is neither moved, written nor removed; a run that reaches its end
\* has attempted every listed file.
C14_EnumerationFrame ==
    /\ pc \in {"start", "check_backup", "list"} =>
         /\ png_files = << >>
         /\ target_files = at_call.target_files
         /\ backup_files = at_call.backup_files
    /\ pc \in {"loop", "move", "open", "trim", "resize", "save", "done"} =>
         /\ Listed = PngEntriesAtCall
         /\ Len(png_files) = Cardinality(PngEntriesAtCall)
    /\ pc = "returned" =>
         /\ target_files = at_call.target_files
         /\ backup_files = at_call.backup_files
    /\ \A n \in Names \ PngEntriesAtCall :
         /\ target_files[n] = original_files[n]
         /\ backup_files[n] = at_call.backup_files[n]
    /\ pc = "done" => \A n \in PngEntriesAtCall : Ended(n)

\* A run has ended that processed a file named in upper case and one named
\* in lower case and left an entry of another name alone.
C14_Witness ==
    /\ pc = "done"
    /\ Succeeded(<<"b", ".", "P", "N", "G">>)
    /\ Succeeded(<<"a", ".", "p", "n", "g">>)
    /\ \E n \in Names \ DotPngNames :
         /\ original_files[n] = Other
         /\ target_files[n] = Other
         /\ backup_files[n] = NoFile

(***************************************************************************)
(* Termination and order of a run, checked under SpecFair.                 *)
(***************************************************************************)
CompletionLines == { i \in 1 .. Len(output) : output[i].msg = "all_done" }

\* Files are worked on one after the other: the files before the current one
\* have their outcome, the current one has none yet, the later ones are
\* untouched; the completion line is the last line, printed at most once and
\* only after the outcome of every listed file.
OneFileAtATime ==
    /\ \A i \in 1 .. Len(png_files) :
         LET f == png_files[i]
         IN  /\ i < idx => Ended(f)
             /\ i >= idx => Reports(f) = {}
             /\ i > idx => /\ target_files[f] = original_files[f]
                           /\ backup_files[f] = at_call.backup_files[f]
    /\ Cardinality(CompletionLines) <= 1
    /\ CompletionLines # {} =>
         /\ pc = "done"
         /\ CompletionLines = {Len(output)}
         /\ png_files # << >>
         /\ \A f \in Listed : Cardinality(Reports(f)) = 1
    /\ pc = "done" => CompletionLines # {}

\* A step that changes an entry of a folder or prints an outcome works on the
\* current file, and every file before it has its outcome already.
StepsOfCurrentFileOnly ==
    \A f \in Names :
        (\/ target_files'[f] # target_files[f]
         \/ backup_files'[f] # backup_files[f]
         \/ Reports(f)' # Reports(f))
            => /\ idx \in 1 .. Len(png_files)
               /\ f = png_files[idx]
               /\ \A j \in 1 .. idx - 1 : Ended(png_files[j])

\* C15 (sequential completion): every run terminates; the steps of one file
\* all finish before a step of the next file starts; when the listing is not
\* empty the completion line is printed, exactly once, after the outcome of
\* every listed file, also when files failed.
C15_SequentialCompletion ==
    /\ []OneFileAtATime
    /\ [][StepsOfCurrentFileOnly]_vars
    /\ <>(pc \in {"done", "returned"})
    /\ (png_files # << >>) ~> (pc = "done" /\ CompletionLines # {})

\* A run of several files has ended with its completion line although every
\* file failed.
C15_Witness ==
    /\ pc = "done"
    /\ Len(png_files) >= 2
    /\ CompletionLines = {Len(output)}
    /\ \A f \in Listed : f \in RaisedFiles /\ Ended(f)

=============================================================================
